---- MODULE Spec2Model ----
(***************************************************************************)
(* A model of the jaeger-mongodb storage plugin: the span writer           *)
(* (SpanWriter.WriteSpan and its converters), the span reader (GetTrace,   *)
(* FindTraces, FindTraceIDs, GetDependencies, fetchTracesById,             *)
(* findTraceIDs and the document decoders) and the MongoDB collection they *)
(* share, kept as the sequence of inserted span documents.                 *)
(***************************************************************************)
EXTENDS Integers, Sequences, FiniteSets, TLC

VARIABLES
    store,      \* the collection: span documents in insertion (natural) order
    res,        \* the last operation: its name, its arguments and what it returned
    written,    \* history: the domain spans handed to WriteSpan, in call order
    gen         \* the test generator generateTraces: its arguments and loop index

vars == <<store, written, res, gen>>

----------------------------------------------------------------------------
(* Bounds of the model.                                                    *)

\* most documents the collection holds in the search and dependency models
MaxStore == 2

\* largest numTraces handed to generateTraces
MaxChain == 3

\* largest NumTraces (result-count limit) of a search query
MaxNumTraces == 2

----------------------------------------------------------------------------
(* Small helpers.                                                          *)

Range(f) == {f[i] : i \in DOMAIN f}

SeqsUpTo(S, n) == UNION {[1..k -> S] : k \in 0..n}

\* all orders in which the elements of a finite set can be enumerated
Orders(S) == {f \in [1..Cardinality(S) -> S] : \A i, j \in DOMAIN f : i # j => f[i] # f[j]}

Min(S) == CHOOSE m \in S : \A n \in S : m <= n

\* the elements of seq that belong to keep, in their original order
RECURSIVE FilterSeq(_, _)
FilterSeq(seq, keep) ==
    IF seq = <<>> THEN <<>>
    ELSE (IF Head(seq) \in keep THEN <<Head(seq)>> ELSE <<>>) \o FilterSeq(Tail(seq), keep)

----------------------------------------------------------------------------
(* Identifiers and values and their string forms.                          *)

HexDigits == <<"0", "1", "2", "3", "4", "5", "6", "7", "8", "9", "a", "b", "c", "d", "e", "f">>

DecDigits == <<"0", "1", "2", "3", "4", "5", "6", "7", "8", "9">>

\* fmt "%x" of an unsigned number: model.TraceID.String() with High = 0 and
\* model.SpanID.String()
RECURSIVE FormatHex(_)
FormatHex(n) ==
    IF n < 16 THEN HexDigits[n + 1]
    ELSE FormatHex(n \div 16) \o HexDigits[(n % 16) + 1]

\* strconv.FormatInt(n, 10)
RECURSIVE FormatInt(_)
FormatInt(n) ==
    IF n < 0 THEN "-" \o FormatInt(0 - n)
    ELSE IF n < 10 THEN DecDigits[n + 1]
    ELSE FormatInt(n \div 10) \o DecDigits[(n % 10) + 1]

\* the identifiers (trace and span ids) of the model
Ids == {0, 1, 2, 3, 26}

\* the integers that occur as tag values
TagInts == {1, 200, 404}

\* a failed parse
ParseError == [ok |-> FALSE, v |-> 0]

\* model.TraceIDFromString / model.SpanIDFromString: hexadecimal, else an error
ParseHex(s) ==
    IF \E n \in Ids : FormatHex(n) = s
    THEN [ok |-> TRUE, v |-> CHOOSE n \in Ids : FormatHex(n) = s]
    ELSE ParseError

\* strconv.ParseInt(s, 10, 64)
ParseInt(s) ==
    IF \E n \in TagInts : FormatInt(n) = s
    THEN [ok |-> TRUE, v |-> CHOOSE n \in TagInts : FormatInt(n) = s]
    ELSE ParseError

\* strconv.ParseBool(s)
ParseBool(s) ==
    IF s \in {"1", "t", "T", "TRUE", "true", "True"} THEN [ok |-> TRUE, v |-> TRUE]
    ELSE IF s \in {"0", "f", "F", "FALSE", "false", "False"} THEN [ok |-> TRUE, v |-> FALSE]
    ELSE [ok |-> FALSE, v |-> FALSE]

\* strconv.FormatBool
FormatBool(b) == IF b THEN "true" ELSE "false"

\* strconv.FormatFloat(f, 'g', 10, 64) and strconv.ParseFloat(s, 64); the
\* floats of the model are the whole numbers of TagInts
FormatFloat(f) == FormatInt(f)

ParseFloat(s) == ParseInt(s)

\* strings.ToLower on the names of model.ValueType
ToLower(s) ==
    CASE s = "STRING" -> "string"
      [] s = "BOOL" -> "bool"
      [] s = "INT64" -> "int64"
      [] s = "FLOAT64" -> "float64"
      [] s = "BINARY" -> "binary"
      [] OTHER -> s

----------------------------------------------------------------------------
(* The domain model (github.com/jaegertracing/jaeger/model).               *)

\* model.SpanRefType
SpanRefType_CHILD_OF == "CHILD_OF_REF"

SpanRefType_FOLLOWS_FROM == "FOLLOWS_FROM_REF"

\* model.KeyValue and its constructors
ModelKeyValue(key, vtype, vstr, vbool, vint, vfloat) ==
    [Key |-> key, VType |-> vtype, VStr |-> vstr, VBool |-> vbool,
     VInt64 |-> vint, VFloat64 |-> vfloat]

ModelString(key, v) == ModelKeyValue(key, "STRING", v, FALSE, 0, 0)

ModelBool(key, v) == ModelKeyValue(key, "BOOL", "", v, 0, 0)

ModelInt64(key, v) == ModelKeyValue(key, "INT64", "", FALSE, v, 0)

ModelFloat64(key, v) == ModelKeyValue(key, "FLOAT64", "", FALSE, 0, v)

ModelBinary(key) == ModelKeyValue(key, "BINARY", "", FALSE, 0, 0)

\* model.KeyValue.AsString
AsString(kv) ==
    CASE kv.VType = "STRING" -> kv.VStr
      [] kv.VType = "BOOL" -> FormatBool(kv.VBool)
      [] kv.VType = "INT64" -> FormatInt(kv.VInt64)
      [] kv.VType = "FLOAT64" -> FormatFloat(kv.VFloat64)
      [] OTHER -> ""

\* model.NewChildOfRef / model.NewFollowsFromRef
NewChildOfRef(traceID, spanID) ==
    [RefType |-> SpanRefType_CHILD_OF, TraceID |-> traceID, SpanID |-> spanID]

NewFollowsFromRef(traceID, spanID) ==
    [RefType |-> SpanRefType_FOLLOWS_FROM, TraceID |-> traceID, SpanID |-> spanID]

\* time.Duration is a count of nanoseconds
NanosPerMicro == 1000

\* time.Duration.Microseconds
Microseconds(d) == d \div NanosPerMicro

\* model.MicrosecondsAsDuration
MicrosecondsAsDuration(us) == us * NanosPerMicro

----------------------------------------------------------------------------
(* The stored documents (types.go) and the write path (writer.go).         *)

ChildOf == "CHILD_OF"

FollowsFrom == "FOLLOWS_FROM"

StringType == "string"

BoolType == "bool"

Int64Type == "int64"

Float64Type == "float64"

\* a bson value that is a string
StringValue(s) == [t |-> "string", s |-> s]

\* a bson value that is absent, and one of another type than string
NilValue == [t |-> "nil", s |-> ""]

Int32Value == [t |-> "int32", s |-> ""]

\* KeyValue of types.go
KeyValue(key, type, value) == [key |-> key, type |-> type, value |-> value]

convertRefType(refType) ==
    IF refType = SpanRefType_FOLLOWS_FROM THEN FollowsFrom ELSE ChildOf

convertReferences(span) ==
    [i \in 1..Len(span.References) |->
        [refType |-> convertRefType(span.References[i].RefType),
         traceID |-> FormatHex(span.References[i].TraceID),
         spanID |-> FormatHex(span.References[i].SpanID)]]

convertKeyValue(kv) == KeyValue(kv.Key, ToLower(kv.VType), StringValue(AsString(kv)))

\* convertKeyValues without the test of the type: binary tags are converted too
convertKeyValuesKeepingBinary(keyValues) ==
    [i \in 1..Len(keyValues) |-> convertKeyValue(keyValues[i])]

RECURSIVE convertKeyValues(_)
convertKeyValues(keyValues) ==
    IF keyValues = <<>> THEN <<>>
    ELSE (IF Head(keyValues).VType # "BINARY"
          THEN <<convertKeyValue(Head(keyValues))>>
          ELSE <<>>) \o convertKeyValues(Tail(keyValues))

convertProcess(process) ==
    [serviceName |-> process.ServiceName, tags |-> convertKeyValues(process.Tags)]

\* the Span document WriteSpan marshals; Logs is not set and stays empty
WriteSpanDocument(span) ==
    [traceID |-> FormatHex(span.TraceID),
     spanID |-> FormatHex(span.SpanID),
     operationName |-> span.OperationName,
     startTime |-> span.StartTime,
     duration |-> Microseconds(span.Duration),
     references |-> convertReferences(span),
     processID |-> span.ProcessID,
     process |-> convertProcess(span.Process),
     tags |-> convertKeyValues(span.Tags),
     logs |-> <<>>,
     warnings |-> span.Warnings]

\* collection.InsertOne of the marshalled document
InsertOne(span) ==
    /\ store' = Append(store, WriteSpanDocument(span))
    /\ written' = Append(written, span)

----------------------------------------------------------------------------
(* The read path (reader.go): the decoders.                                *)

\* outcome of a decoder that failed
DecodeError == [ok |-> FALSE, v |-> <<>>]

Decoded(v) == [ok |-> TRUE, v |-> v]

SpanReader_convertRef(r) ==
    LET traceID == ParseHex(r.traceID)
        spanID == ParseHex(r.spanID)
    IN  IF r.refType \notin {ChildOf, FollowsFrom} THEN DecodeError
        ELSE IF ~traceID.ok THEN DecodeError
        ELSE IF ~spanID.ok THEN DecodeError
        ELSE Decoded([RefType |-> IF r.refType = ChildOf THEN SpanRefType_CHILD_OF
                                  ELSE SpanRefType_FOLLOWS_FROM,
                      TraceID |-> traceID.v,
                      SpanID |-> spanID.v])

SpanReader_convertRefs(refs) ==
    IF \E i \in 1..Len(refs) : ~SpanReader_convertRef(refs[i]).ok THEN DecodeError
    ELSE Decoded([i \in 1..Len(refs) |-> SpanReader_convertRef(refs[i]).v])

SpanReader_convertKeyValue(tag) ==
    IF tag.value.t = "nil" THEN DecodeError
    ELSE IF tag.value.t # "string" THEN DecodeError
    ELSE LET tagValue == tag.value.s
         IN  CASE tag.type = StringType -> Decoded(ModelString(tag.key, tagValue))
               [] tag.type = BoolType ->
                    IF ParseBool(tagValue).ok
                    THEN Decoded(ModelBool(tag.key, ParseBool(tagValue).v))
                    ELSE DecodeError
               [] tag.type = Int64Type ->
                    IF ParseInt(tagValue).ok
                    THEN Decoded(ModelInt64(tag.key, ParseInt(tagValue).v))
                    ELSE DecodeError
               [] tag.type = Float64Type ->
                    IF ParseFloat(tagValue).ok
                    THEN Decoded(ModelFloat64(tag.key, ParseFloat(tagValue).v))
                    ELSE DecodeError
               [] OTHER -> DecodeError

SpanReader_convertKeyValues(tags) ==
    IF \E i \in 1..Len(tags) : ~SpanReader_convertKeyValue(tags[i]).ok THEN DecodeError
    ELSE Decoded([i \in 1..Len(tags) |-> SpanReader_convertKeyValue(tags[i]).v])

\* instants are counted in milliseconds, the unit of time.UnixMilli
SpanReader_convertLogs(logs) ==
    IF \E i \in 1..Len(logs) : ~SpanReader_convertKeyValues(logs[i].fields).ok THEN DecodeError
    ELSE Decoded([i \in 1..Len(logs) |->
                    [Timestamp |-> logs[i].timestamp,
                     Fields |-> SpanReader_convertKeyValues(logs[i].fields).v]])

\* the body of the cursor loop of fetchTracesById: one document to one model.Span
SpanFromDocument(ms) ==
    LET tId == ParseHex(ms.traceID)
        sId == ParseHex(ms.spanID)
        refs == SpanReader_convertRefs(ms.references)
        tags == SpanReader_convertKeyValues(ms.tags)
        pTags == SpanReader_convertKeyValues(ms.process.tags)
        logs == SpanReader_convertLogs(ms.logs)
    IN  IF ~tId.ok \/ ~sId.ok \/ ~refs.ok \/ ~tags.ok \/ ~pTags.ok \/ ~logs.ok
        THEN DecodeError
        ELSE Decoded([TraceID |-> tId.v,
                      SpanID |-> sId.v,
                      OperationName |-> ms.operationName,
                      References |-> refs.v,
                      StartTime |-> ms.startTime,
                      Duration |-> MicrosecondsAsDuration(ms.duration),
                      Tags |-> tags.v,
                      Logs |-> logs.v,
                      ProcessID |-> "",
                      Process |-> [ServiceName |-> ms.process.serviceName, Tags |-> pTags.v],
                      Warnings |-> ms.warnings])

----------------------------------------------------------------------------
(* The read path: fetching traces by id.                                   *)

\* FetchCursor that delivers the first selected document only
FetchCursorFirstOnly(docs, ids, i) ==
    LET selected == {j \in i..Len(docs) : docs[j].traceID \in ids}
    IN  IF selected = {} THEN <<>> ELSE <<Min(selected)>>

\* the positions of the documents a Find with filter traceID $in ids delivers,
\* in natural order
RECURSIVE FetchCursor(_, _, _)
FetchCursor(docs, ids, i) ==
    IF i > Len(docs) THEN <<>>
    ELSE (IF docs[i].traceID \in ids THEN <<i>> ELSE <<>>) \o FetchCursor(docs, ids, i + 1)

\* fetchTracesById with a loop that skips the documents it cannot convert
fetchTracesByIdSkipping(docs, ids, fails, at) ==
    LET all == FetchCursor(docs, ids, 1)
        cur == FilterSeq(all, {i \in Range(all) : SpanFromDocument(docs[i]).ok})
        found == {docs[cur[k]].traceID : k \in 1..Len(cur)}
        arrivals(t) == FilterSeq(cur, {i \in Range(cur) : docs[i].traceID = t})
    IN  IF fails = "fetch"
        THEN [err |-> "error finding spans", tracesMap |-> <<>>, cursor |-> "none", hit |-> TRUE]
        ELSE [err |-> "nil",
              tracesMap |-> [t \in found |->
                  [k \in 1..Len(arrivals(t)) |-> SpanFromDocument(docs[arrivals(t)[k]]).v]],
              cursor |-> "closed", hit |-> FALSE]

\* fetchTracesById with the spans of a trace put in front of those that came
\* before them
fetchTracesByIdNewestFirst(docs, ids, fails, at) ==
    LET cur == FetchCursor(docs, ids, 1)
        found == {docs[cur[k]].traceID : k \in 1..Len(cur)}
        arrivals(t) == FilterSeq(cur, {i \in Range(cur) : docs[i].traceID = t})
        faulty(k) == fails \in {"fetchNext", "fetchDecode"} /\ k = at
        stops == {k \in 1..Len(cur) : faulty(k) \/ ~SpanFromDocument(docs[cur[k]]).ok}
    IN  IF fails = "fetch"
        THEN [err |-> "error finding spans", tracesMap |-> <<>>, cursor |-> "none", hit |-> TRUE]
        ELSE IF stops # {}
        THEN [err |-> IF ~faulty(Min(stops)) THEN "decode"
                      ELSE IF fails = "fetchNext" THEN "error with finding span"
                      ELSE "error decoding span",
              tracesMap |-> <<>>, cursor |-> "closed", hit |-> faulty(Min(stops))]
        ELSE [err |-> "nil",
              tracesMap |-> [t \in found |->
                  [k \in 1..Len(arrivals(t)) |->
                      SpanFromDocument(docs[arrivals(t)[Len(arrivals(t)) + 1 - k]]).v]],
              cursor |-> "closed", hit |-> FALSE]

\* fetchTracesById: the error it returns ("nil" for none) and its tracesMap,
\* a function from the trace ids found to the spans in arrival order
fetchTracesById(docs, ids, fails, at) ==
    LET cur == FetchCursor(docs, ids, 1)
        found == {docs[cur[k]].traceID : k \in 1..Len(cur)}
        arrivals(t) == FilterSeq(cur, {i \in Range(cur) : docs[i].traceID = t})
        faulty(k) == fails \in {"fetchNext", "fetchDecode"} /\ k = at
        stops == {k \in 1..Len(cur) : faulty(k) \/ ~SpanFromDocument(docs[cur[k]]).ok}
    IN  IF fails = "fetch"
        THEN [err |-> "error finding spans", tracesMap |-> <<>>, cursor |-> "none", hit |-> TRUE]
        ELSE IF stops # {}
        THEN [err |-> IF ~faulty(Min(stops)) THEN "decode"
                      ELSE IF fails = "fetchNext" THEN "error with finding span"
                      ELSE "error decoding span",
              tracesMap |-> <<>>, cursor |-> "closed", hit |-> faulty(Min(stops))]
        ELSE [err |-> "nil",
              tracesMap |-> [t \in found |->
                  [k \in 1..Len(arrivals(t)) |-> SpanFromDocument(docs[arrivals(t)[k]]).v]],
              cursor |-> "closed", hit |-> FALSE]

----------------------------------------------------------------------------
(* The reader of internal/jager-mongodb: findTraces.                       *)

\* the body of the cursor loop of findTraces: the error of the conversion of
\* the span's tags is overwritten by that of the process's tags before it is
\* read, and a failed conversion leaves tags nil; logs and warnings are not
\* converted
findTracesSpan(ms) ==
    LET tId == ParseHex(ms.traceID)
        sId == ParseHex(ms.spanID)
        refs == SpanReader_convertRefs(ms.references)
        tags == SpanReader_convertKeyValues(ms.tags)
        pTags == SpanReader_convertKeyValues(ms.process.tags)
    IN  IF ~tId.ok \/ ~sId.ok \/ ~refs.ok \/ ~pTags.ok
        THEN DecodeError
        ELSE Decoded([TraceID |-> tId.v,
                      SpanID |-> sId.v,
                      OperationName |-> ms.operationName,
                      References |-> refs.v,
                      StartTime |-> ms.startTime,
                      Duration |-> MicrosecondsAsDuration(ms.duration),
                      Tags |-> tags.v,
                      Logs |-> <<>>,
                      ProcessID |-> "",
                      Process |-> [ServiceName |-> ms.process.serviceName, Tags |-> pTags.v],
                      Warnings |-> <<>>])

\* findTraces: the error it returns ("nil" for none) and its tracesMap
findTraces(docs, ids, fails) ==
    LET cur == FetchCursor(docs, ids, 1)
        found == {docs[cur[k]].traceID : k \in 1..Len(cur)}
        arrivals(t) == FilterSeq(cur, {i \in Range(cur) : docs[i].traceID = t})
    IN  IF fails = "fetch"
        THEN [err |-> "error finding spans", tracesMap |-> <<>>, cursor |-> "none", hit |-> TRUE]
        ELSE IF \E k \in 1..Len(cur) : ~findTracesSpan(docs[cur[k]]).ok
        THEN [err |-> "decode", tracesMap |-> <<>>, cursor |-> "closed", hit |-> FALSE]
        ELSE [err |-> "nil",
              tracesMap |-> [t \in found |->
                  [k \in 1..Len(arrivals(t)) |-> findTracesSpan(docs[arrivals(t)[k]]).v]],
              cursor |-> "closed", hit |-> FALSE]

----------------------------------------------------------------------------
(* What an operation leaves in res.                                        *)

\* spanstore.TraceQueryParameters
TraceQueryParameters(min, max, tags, service, operation, dmin, dmax, n) ==
    [StartTimeMin |-> min, StartTimeMax |-> max, Tags |-> tags, ServiceName |-> service,
     OperationName |-> operation, DurationMin |-> dmin, DurationMax |-> dmax, NumTraces |-> n]

NoQuery == TraceQueryParameters(0, 0, {}, "", "", 0, 0, 0)

\* spanstore.OperationQueryParameters
OperationQueryParameters(service, spanKind) == [ServiceName |-> service, SpanKind |-> spanKind]

\* no operation has run yet
NoRes ==
    [op |-> "none",         \* the operation
     traceID |-> 0,         \* GetTrace: the id asked for
     query |-> NoQuery,     \* FindTraces, FindTraceIDs: the query
     endTs |-> 0,           \* GetDependencies: its arguments
     lookback |-> 0,
     fails |-> "none",      \* the fault the store is made to suffer: "find" (the
                            \* Find of findTraceIDs), "fetch" (the Find of
                            \* fetchTracesById), "searchNext", "searchDecode",
                            \* "fetchNext", "fetchDecode" (the cursor's Next or
                            \* Decode on its at-th document)
     at |-> 1,
     hit |-> FALSE,         \* the operation ran into the fault
     cursors |-> [search |-> "none", fetch |-> "none"],
                            \* the cursors at the end: "none" (not opened),
                            \* "closed" or "open"
     err |-> "nil",         \* the error returned, "nil" for none
     trace |-> <<>>,        \* GetTrace: the spans of the trace returned
     ids |-> {},            \* the ids findTraceIDs returned
     traceIDs |-> {},       \* FindTraceIDs: the parsed ids returned
     tracesMap |-> <<>>,    \* FindTraces: the traces returned, by stored trace id
     dls |-> <<>>,          \* GetDependencies: the links returned, by key of the map m
     services |-> <<>>,     \* GetServices: the names returned
     operationQuery |-> OperationQueryParameters("", ""),
                            \* GetOperations: the query
     operations |-> <<>>]   \* GetOperations: the operations returned

ErrTraceNotFound == "trace not found"

----------------------------------------------------------------------------
(* GetTrace.                                                               *)

\* GetTraceOutcomes without the final return of ErrTraceNotFound
GetTraceOutcomesNilTrace(docs, traceID, fails, at) ==
    LET fetched == fetchTracesById(docs, {FormatHex(traceID)}, fails, at)
        called == [NoRes EXCEPT !.op = "GetTrace", !.traceID = traceID,
                                !.fails = fails, !.at = at, !.hit = fetched.hit,
                                !.cursors.fetch = fetched.cursor]
    IN  IF fetched.err # "nil" THEN {[called EXCEPT !.err = fetched.err]}
        ELSE IF DOMAIN fetched.tracesMap = {} THEN {called}
        ELSE {[called EXCEPT !.trace = fetched.tracesMap[i]] : i \in DOMAIN fetched.tracesMap}

\* what GetTrace can return: the first entry the range over tracesMap meets
GetTraceOutcomes(docs, traceID, fails, at) ==
    LET fetched == fetchTracesById(docs, {FormatHex(traceID)}, fails, at)
        called == [NoRes EXCEPT !.op = "GetTrace", !.traceID = traceID,
                                !.fails = fails, !.at = at, !.hit = fetched.hit,
                                !.cursors.fetch = fetched.cursor]
    IN  IF fetched.err # "nil" THEN {[called EXCEPT !.err = fetched.err]}
        ELSE IF DOMAIN fetched.tracesMap = {} THEN {[called EXCEPT !.err = ErrTraceNotFound]}
        ELSE {[called EXCEPT !.trace = fetched.tracesMap[i]] : i \in DOMAIN fetched.tracesMap}

\* GetTrace of internal/jager-mongodb, which fetches with findTraces
InternalGetTraceOutcomes(docs, traceID, fails) ==
    LET fetched == findTraces(docs, {FormatHex(traceID)}, fails)
        called == [NoRes EXCEPT !.op = "internal GetTrace", !.traceID = traceID,
                                !.fails = fails, !.hit = fetched.hit,
                                !.cursors.fetch = fetched.cursor]
    IN  IF fetched.err # "nil" THEN {[called EXCEPT !.err = fetched.err]}
        ELSE IF DOMAIN fetched.tracesMap = {} THEN {[called EXCEPT !.err = ErrTraceNotFound]}
        ELSE {[called EXCEPT !.trace = fetched.tracesMap[i]] : i \in DOMAIN fetched.tracesMap}

InternalGetTrace(traceID, fails) ==
    /\ res.op = "none"
    /\ res' \in InternalGetTraceOutcomes(store, traceID, fails)
    /\ UNCHANGED <<store, written, gen>>

GetTrace(traceID, fails, at) ==
    /\ res.op = "none"
    /\ res' \in GetTraceOutcomes(store, traceID, fails, at)
    /\ UNCHANGED <<store, written, gen>>

----------------------------------------------------------------------------
(* The read path: searching trace ids.                                     *)

\* DurationFilter without the third assignment, the one made when both bounds
\* are set
DurationFilterOneSided(query) ==
    LET absent == [set |-> FALSE, hasLte |-> FALSE, lte |-> 0, hasGte |-> FALSE, gte |-> 0]
        afterMax == IF query.DurationMax # 0
                    THEN [set |-> TRUE, hasLte |-> TRUE, lte |-> Microseconds(query.DurationMax),
                          hasGte |-> FALSE, gte |-> 0]
                    ELSE absent
    IN  IF query.DurationMin # 0
        THEN [set |-> TRUE, hasLte |-> FALSE, lte |-> 0,
              hasGte |-> TRUE, gte |-> Microseconds(query.DurationMin)]
        ELSE afterMax

\* the duration predicate of the filter, after the three assignments of findTraceIDs
DurationFilter(query) ==
    LET absent == [set |-> FALSE, hasLte |-> FALSE, lte |-> 0, hasGte |-> FALSE, gte |-> 0]
        afterMax == IF query.DurationMax # 0
                    THEN [set |-> TRUE, hasLte |-> TRUE, lte |-> Microseconds(query.DurationMax),
                          hasGte |-> FALSE, gte |-> 0]
                    ELSE absent
        afterMin == IF query.DurationMin # 0
                    THEN [set |-> TRUE, hasLte |-> FALSE, lte |-> 0,
                          hasGte |-> TRUE, gte |-> Microseconds(query.DurationMin)]
                    ELSE afterMax
    IN  IF query.DurationMax # 0 /\ query.DurationMin # 0
        THEN [set |-> TRUE, hasLte |-> TRUE, lte |-> Microseconds(query.DurationMax),
              hasGte |-> TRUE, gte |-> Microseconds(query.DurationMin)]
        ELSE afterMin

\* the filter findTraceIDs builds: a field that is not set has has... = FALSE
TraceIDFilter(query) ==
    [startTime |-> [gt |-> query.StartTimeMin, lt |-> query.StartTimeMax],
     hasAnd |-> query.Tags # {},
     and |-> query.Tags,
     hasServiceName |-> query.ServiceName # "",
     serviceName |-> query.ServiceName,
     hasOperationName |-> query.OperationName # "",
     operationName |-> query.OperationName,
     duration |-> DurationFilter(query)]

\* ElemMatch with the value left out of the $elemMatch
ElemMatchKeyOnly(doc, kv) ==
    \E i \in 1..Len(doc.tags) : doc.tags[i].key = kv.key

\* {"tags": {"$elemMatch": {"key": k, "value": v}}} on one document
ElemMatch(doc, kv) ==
    \E i \in 1..Len(doc.tags) :
        /\ doc.tags[i].key = kv.key
        /\ doc.tags[i].value.t = "string"
        /\ doc.tags[i].value.s = kv.value

\* FilterMatches with the tag predicates joined by $or instead of $and
FilterMatchesAnyTag(filter, doc) ==
    /\ doc.startTime > filter.startTime.gt
    /\ doc.startTime < filter.startTime.lt
    /\ filter.hasAnd => \E kv \in filter.and :
            \E i \in 1..Len(doc.tags) :
                doc.tags[i].key = kv.key /\ doc.tags[i].value = [t |-> "string", s |-> kv.value]
    /\ filter.hasServiceName => doc.process.serviceName = filter.serviceName
    /\ filter.hasOperationName => doc.operationName = filter.operationName
    /\ (filter.duration.set /\ filter.duration.hasLte) => doc.duration <= filter.duration.lte
    /\ (filter.duration.set /\ filter.duration.hasGte) => doc.duration >= filter.duration.gte

\* FilterMatches with $gte and $lte in the place of $gt and $lt
FilterMatchesClosedWindow(filter, doc) ==
    /\ doc.startTime >= filter.startTime.gt
    /\ doc.startTime <= filter.startTime.lt
    /\ filter.hasAnd => \A kv \in filter.and : ElemMatch(doc, kv)
    /\ filter.hasServiceName => doc.process.serviceName = filter.serviceName
    /\ filter.hasOperationName => doc.operationName = filter.operationName
    /\ (filter.duration.set /\ filter.duration.hasLte) => doc.duration <= filter.duration.lte
    /\ (filter.duration.set /\ filter.duration.hasGte) => doc.duration >= filter.duration.gte

\* whether the store selects a document under the filter
FilterMatches(filter, doc) ==
    /\ doc.startTime > filter.startTime.gt
    /\ doc.startTime < filter.startTime.lt
    /\ filter.hasAnd => \A kv \in filter.and : ElemMatch(doc, kv)
    /\ filter.hasServiceName => doc.process.serviceName = filter.serviceName
    /\ filter.hasOperationName => doc.operationName = filter.operationName
    /\ (filter.duration.set /\ filter.duration.hasLte) => doc.duration <= filter.duration.lte
    /\ (filter.duration.set /\ filter.duration.hasGte) => doc.duration >= filter.duration.gte

\* SortedCursors without the sort option: the selected documents come in
\* natural order
SortedCursorsNatural(docs, filter) ==
    LET selected == {i \in 1..Len(docs) : FilterMatches(filter, docs[i])}
    IN  {FilterSeq([i \in 1..Len(docs) |-> i], selected)}

\* the orders in which a Find sorted by startTime descending can deliver the
\* selected documents (positions in docs); documents of equal start time come
\* in any order
SortedCursors(docs, filter) ==
    LET selected == {i \in 1..Len(docs) : FilterMatches(filter, docs[i])}
    IN  {cur \in Orders(selected) :
            \A a, b \in 1..Len(cur) : a < b => docs[cur[a]].startTime >= docs[cur[b]].startTime}

\* the trace ids of the first k documents of a cursor
SeenAfter(docs, cur, k) == {docs[cur[j]].traceID : j \in 1..k}

\* the loop of findTraceIDs over one cursor: it stops after the first document
\* that brings the number of ids to NumTraces or beyond
CollectTraceIDs(docs, cur, numTraces) ==
    LET full == {k \in 1..Len(cur) : Cardinality(SeenAfter(docs, cur, k)) >= numTraces}
    IN  SeenAfter(docs, cur, IF full = {} THEN Len(cur) ELSE Min(full))

\* the number of documents the loop of findTraceIDs takes from a cursor
Consumed(docs, cur, numTraces) ==
    LET full == {k \in 1..Len(cur) : Cardinality(SeenAfter(docs, cur, k)) >= numTraces}
    IN  IF full = {} THEN Len(cur) ELSE Min(full)

\* what findTraceIDs can return. A failed Find leaves the cursor nil and the
\* deferred cursor.Close panics; a failed Decode ends the process in log.Fatal
\* before the deferred Close runs; a Next that returns false for a cursor error
\* or a cancelled context ends the loop like the end of the cursor does
findTraceIDs(docs, query, fails, at) ==
    IF fails = "find" THEN {[err |-> "panic", ids |-> {}, cursor |-> "none", hit |-> TRUE]}
    ELSE {IF fails = "searchDecode" /\ at <= Consumed(docs, cur, query.NumTraces)
          THEN [err |-> "fatal", ids |-> {}, cursor |-> "open", hit |-> TRUE]
          ELSE IF fails = "searchNext" /\ at <= Consumed(docs, cur, query.NumTraces)
          THEN [err |-> "nil", ids |-> SeenAfter(docs, cur, at - 1),
                cursor |-> "closed", hit |-> TRUE]
          ELSE [err |-> "nil", ids |-> CollectTraceIDs(docs, cur, query.NumTraces),
                cursor |-> "closed", hit |-> FALSE] :
            cur \in SortedCursors(docs, TraceIDFilter(query))}

----------------------------------------------------------------------------
(* FindTraces and FindTraceIDs.                                            *)

FindTracesOutcomes(docs, query, fails, at) ==
    LET after(found) ==
            LET fetched == fetchTracesById(docs, found.ids, fails, at)
                called == [NoRes EXCEPT !.op = "FindTraces", !.query = query,
                                        !.fails = fails, !.at = at, !.hit = found.hit,
                                        !.cursors.search = found.cursor]
                returned == [called EXCEPT !.ids = found.ids, !.hit = found.hit \/ fetched.hit,
                                           !.cursors.fetch = fetched.cursor]
            IN  IF found.err # "nil" THEN [called EXCEPT !.err = found.err]
                ELSE IF found.ids = {} THEN called
                ELSE IF fetched.err # "nil" THEN [returned EXCEPT !.err = fetched.err]
                ELSE [returned EXCEPT !.tracesMap = fetched.tracesMap]
    IN  {after(found) : found \in findTraceIDs(docs, query, fails, at)}

FindTraces(query, fails, at) ==
    /\ res.op = "none"
    /\ res' \in FindTracesOutcomes(store, query, fails, at)
    /\ UNCHANGED <<store, written, gen>>

FindTraceIDsOutcomes(docs, query, fails, at) ==
    LET after(found) ==
            LET called == [NoRes EXCEPT !.op = "FindTraceIDs", !.query = query,
                                        !.fails = fails, !.at = at, !.hit = found.hit,
                                        !.cursors.search = found.cursor]
            IN  IF found.err # "nil" THEN [called EXCEPT !.err = found.err]
                ELSE IF found.ids = {} THEN called
                ELSE IF \E id \in found.ids : ~ParseHex(id).ok
                THEN [called EXCEPT !.err = "decode", !.ids = found.ids]
                ELSE [called EXCEPT !.ids = found.ids,
                                    !.traceIDs = {ParseHex(id).v : id \in found.ids}]
    IN  {after(found) : found \in findTraceIDs(docs, query, fails, at)}

FindTraceIDs(query, fails, at) ==
    /\ res.op = "none"
    /\ res' \in FindTraceIDsOutcomes(store, query, fails, at)
    /\ UNCHANGED <<store, written, gen>>

----------------------------------------------------------------------------
(* GetDependencies.                                                        *)

maxTracesForDependencies == 25000

RECURSIVE Flatten(_)
Flatten(seqs) == IF seqs = <<>> THEN <<>> ELSE Head(seqs) \o Flatten(Tail(seqs))

\* the map serviceNameBySpanID after the first pair of loops: the last span
\* with the id wins, an id that was never met reads as ""
serviceNameBySpanID(spans, spanID) ==
    LET at == {k \in 1..Len(spans) : spans[k].SpanID = spanID}
    IN  IF at = {} THEN ""
        ELSE spans[CHOOSE k \in at : \A j \in at : j <= k].Process.ServiceName

\* SpanObservations with parent and child exchanged
SpanObservationsReversed(spans, span) ==
    Flatten([r \in 1..Len(span.References) |->
        IF /\ span.References[r].RefType = SpanRefType_CHILD_OF
           /\ serviceNameBySpanID(spans, span.References[r].SpanID) # ""
        THEN <<[Parent |-> span.Process.ServiceName,
                Child |-> serviceNameBySpanID(spans, span.References[r].SpanID)]>>
        ELSE <<>>])

\* SpanObservations without the test of the reference type
SpanObservationsAnyRefType(spans, span) ==
    Flatten([r \in 1..Len(span.References) |->
        IF serviceNameBySpanID(spans, span.References[r].SpanID) # ""
        THEN <<[Parent |-> serviceNameBySpanID(spans, span.References[r].SpanID),
                Child |-> span.Process.ServiceName]>>
        ELSE <<>>])

\* the (parent, child) pairs one span contributes in the second pair of loops
SpanObservations(spans, span) ==
    Flatten([r \in 1..Len(span.References) |->
        IF /\ span.References[r].RefType = SpanRefType_CHILD_OF
           /\ serviceNameBySpanID(spans, span.References[r].SpanID) # ""
        THEN <<[Parent |-> serviceNameBySpanID(spans, span.References[r].SpanID),
                Child |-> span.Process.ServiceName]>>
        ELSE <<>>])

\* DependencyKey with the map m keyed by the child alone
DependencyKeyChildOnly(parent, child) == child

\* the key of the map m
DependencyKey(parent, child) == parent \o child

\* the map m GetDependencies fills from the traces in the order FindTraces
\* returned them: per key the parent and child of the first observation and
\* the number of observations
DependencyMap(traces) ==
    LET spans == Flatten(traces)
        obs == Flatten([k \in 1..Len(spans) |-> SpanObservations(spans, spans[k])])
        keys == {DependencyKey(obs[o].Parent, obs[o].Child) : o \in 1..Len(obs)}
        at(key) == {o \in 1..Len(obs) : DependencyKey(obs[o].Parent, obs[o].Child) = key}
    IN  [key \in keys |->
            [Parent |-> obs[Min(at(key))].Parent,
             Child |-> obs[Min(at(key))].Child,
             CallCount |-> Cardinality(at(key))]]

\* DependencyLinks without the test Parent != Child
DependencyLinksWithSelfLoops(traces) == DependencyMap(traces)

\* the links GetDependencies returns: the entries of m whose Parent is not
\* their Child
DependencyLinks(traces) ==
    LET m == DependencyMap(traces)
    IN  [key \in {k \in DOMAIN m : m[k].Parent # m[k].Child} |-> m[key]]

\* GetDependenciesOutcomes with StartTimeMin left at its zero value
GetDependenciesOutcomesNoLookback(docs, endTs, lookback, fails, at) ==
    LET query == TraceQueryParameters(0, endTs, {}, "", "", 0, 0,
                                      maxTracesForDependencies)
        after(found) ==
            LET called == [NoRes EXCEPT !.op = "GetDependencies", !.endTs = endTs,
                                        !.lookback = lookback, !.fails = fails, !.at = at,
                                        !.hit = found.hit, !.cursors = found.cursors]
            IN  IF found.err \in {"panic", "fatal"} THEN {[called EXCEPT !.err = found.err]}
                ELSE {[called EXCEPT !.ids = found.ids, !.tracesMap = found.tracesMap,
                                     !.dls = DependencyLinks([k \in 1..Len(order) |->
                                                                found.tracesMap[order[k]]])] :
                        order \in Orders(DOMAIN found.tracesMap)}
    IN  UNION {after(found) : found \in FindTracesOutcomes(docs, query, fails, at)}

GetDependenciesOutcomes(docs, endTs, lookback, fails, at) ==
    LET query == TraceQueryParameters(endTs - lookback, endTs, {}, "", "", 0, 0,
                                      maxTracesForDependencies)
        after(found) ==
            LET called == [NoRes EXCEPT !.op = "GetDependencies", !.endTs = endTs,
                                        !.lookback = lookback, !.fails = fails, !.at = at,
                                        !.hit = found.hit, !.cursors = found.cursors]
            IN  IF found.err \in {"panic", "fatal"} THEN {[called EXCEPT !.err = found.err]}
                ELSE {[called EXCEPT !.ids = found.ids, !.tracesMap = found.tracesMap,
                                     !.dls = DependencyLinks([k \in 1..Len(order) |->
                                                                found.tracesMap[order[k]]])] :
                        order \in Orders(DOMAIN found.tracesMap)}
    IN  UNION {after(found) : found \in FindTracesOutcomes(docs, query, fails, at)}

GetDependencies(endTs, lookback, fails, at) ==
    /\ res.op = "none"
    /\ res' \in GetDependenciesOutcomes(store, endTs, lookback, fails, at)
    /\ UNCHANGED <<store, written, gen>>

----------------------------------------------------------------------------
(* GetServices.                                                            *)

\* Distinct that delivers the value of every document, repeated or not
DistinctPerDocument(values, fails) ==
    {[i \in 1..Len(values) |-> StringValue(values[i])]}

\* the values the store's distinct call can deliver for a field whose values,
\* document by document, are given: each value once, in some order; under the
\* fault "distinctValue" a value that is no string is among them
Distinct(values, fails) ==
    Orders({StringValue(values[i]) : i \in 1..Len(values)}
           \cup (IF fails = "distinctValue" THEN {Int32Value} ELSE {}))

toStringArray(arr) ==
    IF \E i \in 1..Len(arr) : arr[i].t # "string"
    THEN [err |-> "non-string key found", array |-> <<>>]
    ELSE [err |-> "nil", array |-> [i \in 1..Len(arr) |-> arr[i].s]]

GetServicesOutcomes(docs, fails) ==
    LET called == [NoRes EXCEPT !.op = "GetServices", !.fails = fails, !.hit = fails # "none"]
        names == [i \in 1..Len(docs) |-> docs[i].process.serviceName]
    IN  IF fails = "distinct" THEN {[called EXCEPT !.err = "distinct call failed"]}
        ELSE {[called EXCEPT !.err = toStringArray(arr).err,
                             !.services = toStringArray(arr).array] :
                arr \in Distinct(names, fails)}

GetServices(fails) ==
    /\ res.op = "none"
    /\ res' \in GetServicesOutcomes(store, fails)
    /\ UNCHANGED <<store, written, gen>>

----------------------------------------------------------------------------
(* GetOperations.                                                          *)

\* spanstore.Operation
Operation(name, spanKind) == [Name |-> name, SpanKind |-> spanKind]

toStringOperations(arr) ==
    IF \E i \in 1..Len(arr) : arr[i].t # "string"
    THEN [err |-> "non-string key found", array |-> <<>>]
    ELSE [err |-> "nil", array |-> [i \in 1..Len(arr) |-> Operation(arr[i].s, "TODO")]]

\* GetOperationsOutcomes with the filter left empty whatever the query
GetOperationsOutcomesNoFilter(docs, query, fails) ==
    LET called == [NoRes EXCEPT !.op = "GetOperations", !.operationQuery = query,
                                !.fails = fails, !.hit = fails # "none"]
        names == [i \in 1..Len(docs) |-> docs[i].operationName]
    IN  IF fails = "distinct" THEN {[called EXCEPT !.err = "distinct call failed"]}
        ELSE {[called EXCEPT !.err = toStringOperations(arr).err,
                             !.operations = toStringOperations(arr).array] :
                arr \in Distinct(names, fails)}

\* the distinct call is on operationName, under the filter
\* process.serviceName = query.ServiceName when that name is not empty
GetOperationsOutcomes(docs, query, fails) ==
    LET called == [NoRes EXCEPT !.op = "GetOperations", !.operationQuery = query,
                                !.fails = fails, !.hit = fails # "none"]
        selected == {i \in 1..Len(docs) :
                        query.ServiceName # "" =>
                            docs[i].process.serviceName = query.ServiceName}
        positions == FilterSeq([i \in 1..Len(docs) |-> i], selected)
        names == [k \in 1..Len(positions) |-> docs[positions[k]].operationName]
    IN  IF fails = "distinct" THEN {[called EXCEPT !.err = "distinct call failed"]}
        ELSE {[called EXCEPT !.err = toStringOperations(arr).err,
                             !.operations = toStringOperations(arr).array] :
                arr \in Distinct(names, fails)}

GetOperations(query, fails) ==
    /\ res.op = "none"
    /\ res' \in GetOperationsOutcomes(store, query, fails)
    /\ UNCHANGED <<store, written, gen>>

----------------------------------------------------------------------------
(* SpanWriter.WriteSpan.                                                   *)

WriteSpan(span) ==
    /\ res.op = "none"
    /\ InsertOne(span)
    /\ UNCHANGED <<res, gen>>

\* the caller has taken the result of a read operation and may call again
Return ==
    /\ res.op # "none"
    /\ res' = NoRes
    /\ UNCHANGED <<store, written, gen>>

----------------------------------------------------------------------------
(* The codec model: spans with every kind of field are written and read    *)
(* back by trace id.                                                       *)

\* most spans the codec model writes
MaxCodecStore == 1

\* model.Span
Span(traceID, spanID, operation, start, duration, refs, service, pTags, tags, logs, warnings) ==
    [TraceID |-> traceID, SpanID |-> spanID, OperationName |-> operation,
     References |-> refs, StartTime |-> start, Duration |-> duration,
     Tags |-> tags, Logs |-> logs, ProcessID |-> "",
     Process |-> [ServiceName |-> service, Tags |-> pTags], Warnings |-> warnings]

CodecReferences ==
    {<<>>, <<NewFollowsFromRef(26, 3), NewChildOfRef(1, 2)>>}

CodecTags ==
    {<<>>,
     <<ModelInt64("http.status_code", 200)>>,
     <<ModelBinary("blob"), ModelString("component", "x"), ModelBinary("blob")>>,
     <<ModelBool("error", TRUE), ModelFloat64("ratio", 1)>>}

CodecProcessTags == {<<>>, <<ModelString("host", "x"), ModelBinary("blob")>>}

CodecLogs == {<<>>, <<[Timestamp |-> 1, Fields |-> <<ModelInt64("http.status_code", 200)>>]>>}

CodecWarnings == {<<>>, <<"w">>}

CodecDurations == {1000, 1500}

CodecSpans ==
    {Span(t, 2, "grpc", 1, d, r, "Service 1", p, g, l, w) :
        t \in {1, 26}, d \in CodecDurations, r \in CodecReferences, p \in CodecProcessTags,
        g \in CodecTags, l \in CodecLogs, w \in CodecWarnings}

\* generateTraces has not been called
NoGen == [numTraces |-> 0, dependencyPattern |-> "none", followsFrom |-> FALSE, i |-> 0]

CodecInit ==
    /\ store = <<>>
    /\ written = <<>>
    /\ res = NoRes
    /\ gen = NoGen

CodecWriteSpan ==
    /\ Len(store) < MaxCodecStore
    /\ \E span \in CodecSpans : WriteSpan(span)

CodecGetTrace == \E traceID \in {1, 26}, fails \in {"none", "fetch"} : GetTrace(traceID, fails, 1)

CodecNext == CodecWriteSpan \/ CodecGetTrace \/ Return

SpecCodec == CodecInit /\ [][CodecNext]_vars

----------------------------------------------------------------------------
(* The search model: spans with tags are written to a few traces and the   *)
(* traces are searched and fetched.                                        *)

\* the service and the tags of the spans written
SearchShapes ==
    {[service |-> "a", tags |-> <<ModelInt64("http.status_code", 200)>>],
     [service |-> "a", tags |-> <<ModelInt64("http.status_code", 404)>>],
     [service |-> "aa", tags |-> <<ModelString("component", "x")>>],
     [service |-> "aa", tags |-> <<ModelInt64("http.status_code", 200)>>],
     [service |-> "a", tags |-> <<ModelInt64("http.status_code", 200),
                                     ModelString("component", "x")>>]}

SearchStartTimes == {1, 2}

SearchSpans ==
    {Span(t, 1, "grpc", start, 1000, <<>>, shape.service, <<>>, shape.tags, <<>>, <<>>) :
        t \in {1, 2}, start \in SearchStartTimes, shape \in SearchShapes}

\* the tag maps of the queries
SearchQueryTags ==
    {{},
     {[key |-> "http.status_code", value |-> "200"]},
     {[key |-> "http.status_code", value |-> "200"], [key |-> "component", value |-> "x"]}}

SearchQueries ==
    {TraceQueryParameters(min, 3, tags, service, "", 0, 0, n) :
        min \in {0, 1}, tags \in SearchQueryTags, service \in {"", "aa"},
        n \in 0..MaxNumTraces}

\* the queries run with a failing store call
FailingQueries == {query \in SearchQueries : query.Tags = {} /\ query.NumTraces = MaxNumTraces}

Init ==
    /\ store = <<>>
    /\ written = <<>>
    /\ res = NoRes
    /\ gen = NoGen

SearchWriteSpan ==
    /\ Len(store) < MaxStore
    /\ \E span \in SearchSpans : WriteSpan(span)

SearchFindTraces ==
    \/ \E query \in SearchQueries : FindTraces(query, "none", 1)
    \/ \E query \in FailingQueries, fails \in {"find", "fetch"} : FindTraces(query, fails, 1)

SearchFindTraceIDs ==
    \/ \E query \in {q \in SearchQueries : q.Tags = {}} : FindTraceIDs(query, "none", 1)
    \/ \E query \in FailingQueries : FindTraceIDs(query, "find", 1)

SearchGetTrace == \E traceID \in {1, 3}, fails \in {"none", "fetch"} : GetTrace(traceID, fails, 1)

SearchGetServices == \E fails \in {"none", "distinct", "distinctValue"} : GetServices(fails)

Next ==
    \/ SearchWriteSpan
    \/ SearchFindTraces
    \/ SearchFindTraceIDs
    \/ SearchGetTrace
    \/ SearchGetServices
    \/ Return

Spec == Init /\ [][Next]_vars

----------------------------------------------------------------------------
(* The dependency model: spans that refer to each other are written and    *)
(* the dependency links of a time window are computed.                     *)

DepReferences ==
    {<<>>, <<NewChildOfRef(1, 1)>>, <<NewChildOfRef(1, 2)>>,
     <<NewFollowsFromRef(1, 1)>>, <<NewFollowsFromRef(1, 2)>>}

DepServices == {"a", "aa"}

\* the spans of trace 1 start at instant 1, those of trace 2 at instant 2
DepSpans ==
    {Span(t, spanID, "grpc", t, 1000, refs, service, <<>>, <<>>, <<>>, <<>>) :
        t \in {1, 2}, spanID \in {1, 2}, service \in DepServices, refs \in DepReferences}

\* the arguments (endTs, lookback) of GetDependencies
DepWindows ==
    {[endTs |-> 3, lookback |-> 3], [endTs |-> 3, lookback |-> 2],
     [endTs |-> 2, lookback |-> 2], [endTs |-> 2, lookback |-> 1],
     [endTs |-> 3, lookback |-> 0]}

DepWriteSpan ==
    /\ Len(store) < MaxStore
    /\ \E span \in DepSpans : WriteSpan(span)

DepGetDependencies ==
    \/ \E w \in DepWindows : GetDependencies(w.endTs, w.lookback, "none", 1)
    \/ \E fails \in {"find", "fetch"} : GetDependencies(3, 3, fails, 1)

DepNext == DepWriteSpan \/ DepGetDependencies \/ Return

SpecDeps == Init /\ [][DepNext]_vars

----------------------------------------------------------------------------
(* The chain model: the spans of the test helper generateTraces are        *)
(* written one by one and the dependency links are computed.               *)

spanTagsSuccess == <<ModelInt64("http.status_code", 200)>>

spanTagsFailure == <<ModelInt64("http.status_code", 404)>>

randomOperation == <<"grpc", "http", "spark", "redis">>

\* fmt.Sprintf("Service %d", i)
ServiceName(i) == "Service " \o FormatInt(i)

\* the instant all generated spans start at, and the one their log carries
GeneratedStartTime == 1

\* the span generateTraces writes in round i of its loop
GeneratedSpan(g, i) ==
    LET ref(j) == IF g.followsFrom THEN NewFollowsFromRef(j, j) ELSE NewChildOfRef(j, j)
        forward == IF g.dependencyPattern = "circular" /\ i < g.numTraces - 1
                   THEN <<ref(i + 1)>> ELSE <<>>
        backward == IF g.dependencyPattern \in {"single", "circular"} /\ i > 0
                    THEN <<ref(i - 1)>> ELSE <<>>
    IN  Span(i, i, randomOperation[(i % 4) + 1], GeneratedStartTime, i + 10,
             forward \o backward, ServiceName(i), spanTagsSuccess,
             IF i % 10 = 0 THEN spanTagsFailure ELSE spanTagsSuccess,
             <<[Timestamp |-> GeneratedStartTime, Fields |-> spanTagsSuccess]>>, <<>>)

ChainInit ==
    /\ store = <<>>
    /\ written = <<>>
    /\ res = NoRes
    /\ gen \in [numTraces : 0..MaxChain, dependencyPattern : {"none", "single", "circular"},
                followsFrom : BOOLEAN, i : {0}]

\* one round of the loop of generateTraces
generateTraces ==
    /\ res.op = "none"
    /\ gen.i < gen.numTraces
    /\ InsertOne(GeneratedSpan(gen, gen.i))
    /\ gen' = [gen EXCEPT !.i = gen.i + 1]
    /\ UNCHANGED res

ChainGetDependencies ==
    \E w \in {[endTs |-> 3, lookback |-> 3], [endTs |-> 3, lookback |-> 0],
              [endTs |-> 2, lookback |-> 1]}, fails \in {"none", "find"} :
        GetDependencies(w.endTs, w.lookback, fails, 1)

ChainNext == generateTraces \/ ChainGetDependencies \/ Return

SpecChain == ChainInit /\ [][ChainNext]_vars

----------------------------------------------------------------------------
(* The fault model: the collection holds documents of any writer, some of  *)
(* them malformed, and the store's calls fail in every way they can.       *)

\* a Span document (types.go) as a collection may hold it
RawSpan(traceID, spanID, start, refs, pTags, tags, logs) ==
    [traceID |-> traceID, spanID |-> spanID, operationName |-> "grpc", startTime |-> start,
     duration |-> 1, references |-> refs, processID |-> "",
     process |-> [serviceName |-> "a", tags |-> pTags], tags |-> tags, logs |-> logs,
     warnings |-> <<>>]

\* tags no decoder accepts: a nil value, a value that is no string, a value
\* that does not parse as its declared type, a type that is not recognised
BadTags ==
    {<<KeyValue("k", StringType, NilValue)>>,
     <<KeyValue("k", StringType, Int32Value)>>,
     <<KeyValue("k", Int64Type, StringValue("x"))>>,
     <<KeyValue("k", BoolType, StringValue("x"))>>,
     <<KeyValue("k", "binary", StringValue("x"))>>}

GoodTags == <<KeyValue("k", Int64Type, StringValue("200"))>>

\* the well-formed documents: two of trace 1 and one of trace 2
GoodDocuments ==
    {RawSpan("1", "1", 2, <<>>, GoodTags, GoodTags,
             <<[timestamp |-> 1, fields |-> GoodTags]>>),
     RawSpan("1", "2", 1, <<[refType |-> ChildOf, traceID |-> "1", spanID |-> "1"]>>,
             <<>>, <<>>, <<>>),
     RawSpan("2", "2", 1, <<[refType |-> FollowsFrom, traceID |-> "1", spanID |-> "1"]>>,
             <<>>, <<>>, <<>>)}

\* the malformed documents, all of trace 2 but the one whose trace id is no
\* hexadecimal number
BadDocuments ==
    {RawSpan("zz", "1", 1, <<>>, <<>>, <<>>, <<>>),
     RawSpan("2", "zz", 1, <<>>, <<>>, <<>>, <<>>),
     RawSpan("2", "1", 1, <<[refType |-> "PARENT", traceID |-> "1", spanID |-> "1"]>>,
             <<>>, <<>>, <<>>)}
    \cup {RawSpan("2", "1", 1, <<>>, <<>>, tags, <<>>) : tags \in BadTags}
    \cup {RawSpan("2", "1", 1, <<>>, <<KeyValue("k", StringType, NilValue)>>, <<>>, <<>>),
          RawSpan("2", "1", 1, <<>>, <<>>, <<>>,
                  <<[timestamp |-> 1, fields |-> <<KeyValue("k", Int64Type, StringValue("x"))>>]>>)}

\* a document enters the collection without passing through WriteSpan
RawInsert ==
    /\ res.op = "none"
    /\ Len(store) < MaxStore
    /\ \E doc \in GoodDocuments \cup BadDocuments : store' = Append(store, doc)
    /\ UNCHANGED <<written, res, gen>>

\* the faults of the store's Find and of its cursors
Faults == {"none", "find", "fetch", "searchNext", "searchDecode", "fetchNext", "fetchDecode"}

\* the queries of the fault model: everything, at most n traces
FaultQueries ==
    {TraceQueryParameters(0, 3, {}, "", "", 0, 0, n) : n \in {1, MaxNumTraces}}

FaultGetTrace ==
    \E traceID \in {1, 2}, fails \in {"none", "fetch", "fetchNext", "fetchDecode"},
       at \in 1..MaxStore :
        GetTrace(traceID, fails, at)

FaultFindTraces ==
    \E query \in FaultQueries, fails \in Faults, at \in 1..MaxStore :
        FindTraces(query, fails, at)

FaultFindTraceIDs ==
    \E query \in FaultQueries, fails \in {"none", "find", "searchNext", "searchDecode"},
       at \in 1..MaxStore :
        FindTraceIDs(query, fails, at)

FaultNext ==
    \/ RawInsert
    \/ FaultGetTrace
    \/ FaultFindTraces
    \/ FaultFindTraceIDs
    \/ Return

SpecFaults == Init /\ [][FaultNext]_vars

----------------------------------------------------------------------------
(* The fault model of the reader of internal/jager-mongodb.                *)

InternalFaultGetTrace ==
    \E traceID \in {1, 2}, fails \in {"none", "fetch"} : InternalGetTrace(traceID, fails)

InternalFaultNext == RawInsert \/ InternalFaultGetTrace \/ Return

SpecInternalFaults == Init /\ [][InternalFaultNext]_vars

----------------------------------------------------------------------------
(* The concurrent model: a writer inserts the spans of its traces one by   *)
(* one while a reader fetches; FindTraces makes its two store calls, the   *)
(* search and the fetch, at different moments.                             *)

ConcSpans ==
    {Span(t, spanID, "grpc", 1, 1000, <<>>, "a", <<>>, <<>>, <<>>, <<>>) :
        t \in {1, 2}, spanID \in {1, 2}}

ConcQuery == TraceQueryParameters(0, 3, {}, "", "", 0, 0, MaxNumTraces)

\* the writer inserts a span, whatever the reader is doing
ConcWriteSpan ==
    /\ Len(store) < MaxStore
    /\ \E span \in ConcSpans : InsertOne(span)
    /\ UNCHANGED <<res, gen>>

ConcGetTrace == \E traceID \in {1, 2} : GetTrace(traceID, "none", 1)

\* FindTraces up to the return of findTraceIDs: with no id it returns nil, nil,
\* otherwise it goes on to fetchTracesById
ConcFindTraceIDs ==
    /\ res.op = "none"
    /\ \E found \in findTraceIDs(store, ConcQuery, "none", 1) :
        res' = [NoRes EXCEPT !.op = IF found.ids = {} THEN "FindTraces" ELSE "findTraceIDs",
                             !.query = ConcQuery, !.ids = found.ids,
                             !.cursors.search = found.cursor]
    /\ UNCHANGED <<store, written, gen>>

\* FindTraces from the call of fetchTracesById to its return
ConcFetchTraces ==
    /\ res.op = "findTraceIDs"
    /\ LET fetched == fetchTracesById(store, res.ids, "none", 1)
       IN  res' = [res EXCEPT !.op = "FindTraces", !.err = fetched.err,
                              !.tracesMap = fetched.tracesMap,
                              !.cursors.fetch = fetched.cursor]
    /\ UNCHANGED <<store, written, gen>>

ConcNext ==
    \/ ConcWriteSpan
    \/ ConcGetTrace
    \/ ConcFindTraceIDs
    \/ ConcFetchTraces
    \/ Return

SpecConc == Init /\ [][ConcNext]_vars

----------------------------------------------------------------------------
(* The operations model: spans of a few services and operations are        *)
(* written and the operation names are listed.                             *)

OpsSpans ==
    {Span(1, 1, operation, 1, 1000, <<>>, service, <<>>, <<>>, <<>>, <<>>) :
        operation \in {"grpc", "http"}, service \in {"a", "aa"}}

OpsQueries ==
    {OperationQueryParameters(service, spanKind) :
        service \in {"", "a", "b"}, spanKind \in {"", "server"}}

OpsWriteSpan ==
    /\ Len(store) < MaxStore
    /\ \E span \in OpsSpans : WriteSpan(span)

OpsGetOperations ==
    \E query \in OpsQueries, fails \in {"none", "distinct", "distinctValue"} :
        GetOperations(query, fails)

OpsNext == OpsWriteSpan \/ OpsGetOperations \/ Return

SpecOps == Init /\ [][OpsNext]_vars

----------------------------------------------------------------------------
(* The truncation model: spans of three traces start at different         *)
(* instants and a search is limited to fewer traces than match.            *)

\* most documents the collection holds in the truncation model
MaxRecentStore == 3

RecentSpans ==
    {Span(t, 1, "grpc", start, 1000, <<>>, "a", <<>>, <<>>, <<>>, <<>>) :
        t \in {1, 2, 3}, start \in {1, 2, 3}}

\* the windows (StartTimeMin, StartTimeMax) of the queries and the service
\* asked for: a window around every span, and a window with spans at both of
\* its ends together with a service name
RecentWindows ==
    {[min |-> 0, max |-> 4, service |-> ""], [min |-> 1, max |-> 3, service |-> "a"]}

RecentQueries ==
    {TraceQueryParameters(w.min, w.max, {}, w.service, "", 0, 0, n) :
        w \in RecentWindows, n \in 1..MaxNumTraces}

RecentWriteSpan ==
    /\ Len(store) < MaxRecentStore
    /\ \E span \in RecentSpans : WriteSpan(span)

RecentFindTraces == \E query \in RecentQueries : FindTraces(query, "none", 1)

RecentFindTraceIDs == \E query \in RecentQueries : FindTraceIDs(query, "none", 1)

\* trace 26 is never written
RecentGetTrace == \E traceID \in {1, 26} : GetTrace(traceID, "none", 1)

RecentNext ==
    \/ RecentWriteSpan
    \/ RecentFindTraces
    \/ RecentFindTraceIDs
    \/ RecentGetTrace
    \/ Return

SpecRecent == Init /\ [][RecentNext]_vars

----------------------------------------------------------------------------
(* The duration model: spans of different durations are written and        *)
(* searched by duration.                                                   *)

\* time.Duration values: 1, 2 and 3 microseconds
DurationSpans ==
    {Span(t, 1, "grpc", 1, duration, <<>>, "a", <<>>, <<>>, <<>>, <<>>) :
        t \in {1, 2, 3}, duration \in {1000, 2000, 3000}}

\* the queries: every span is inside the time window and the limit leaves
\* room for every trace
DurationQueries ==
    {TraceQueryParameters(0, 3, {}, "", "", dmin, dmax, MaxStore) :
        dmin \in {0, 2000, 3000}, dmax \in {0, 1000, 2000}}

DurationWriteSpan ==
    /\ Len(store) < MaxStore
    /\ \E span \in DurationSpans : WriteSpan(span)

DurationFindTraces == \E query \in DurationQueries : FindTraces(query, "none", 1)

DurationFindTraceIDs == \E query \in DurationQueries : FindTraceIDs(query, "none", 1)

DurationNext == DurationWriteSpan \/ DurationFindTraces \/ DurationFindTraceIDs \/ Return

SpecDuration == Init /\ [][DurationNext]_vars

----------------------------------------------------------------------------
(* Round trip.                                                             *)

\* the tags a round trip is allowed to change: the binary ones go
WithoutBinary(tags) == FilterSeq(tags, {kv \in Range(tags) : kv.VType # "BINARY"})

\* the fields of a span the round trip is about
RoundTripFields(span, tags, pTags) ==
    [TraceID |-> span.TraceID, SpanID |-> span.SpanID, OperationName |-> span.OperationName,
     StartTime |-> span.StartTime, Duration |-> span.Duration,
     References |-> span.References, ServiceName |-> span.Process.ServiceName,
     ProcessTags |-> pTags, Tags |-> tags, Logs |-> span.Logs, Warnings |-> span.Warnings]

\* the spans written so far to one trace, in call order
WrittenTo(traceID) ==
    FilterSeq(written, {span \in Range(written) : span.TraceID = traceID})

\* C1: a span written by WriteSpan and read back by GetTrace equals the span
\* written in trace id, span id, operation name, start time, duration,
\* references, process, tags, logs and warnings, except that binary tags are gone.
RoundTrip ==
    (res.op = "GetTrace" /\ res.err = "nil") =>
        /\ Len(res.trace) = Len(WrittenTo(res.traceID))
        /\ \A k \in 1..Len(res.trace) :
            RoundTripFields(res.trace[k], res.trace[k].Tags, res.trace[k].Process.Tags) =
            RoundTripFields(WrittenTo(res.traceID)[k],
                            WithoutBinary(WrittenTo(res.traceID)[k].Tags),
                            WithoutBinary(WrittenTo(res.traceID)[k].Process.Tags))

----------------------------------------------------------------------------
(* Searching.                                                              *)

\* a search (FindTraces or FindTraceIDs) whose store calls succeeded and that
\* returned without error
Searched ==
    /\ res.op \in {"FindTraces", "FindTraceIDs"}
    /\ res.fails = "none"
    /\ res.err = "nil"

\* the stored documents the query selects: inside the strict time window,
\* of the service and operation asked for, within the duration bounds and
\* carrying every requested tag
SelectedBy(query) ==
    {i \in 1..Len(store) :
        /\ query.StartTimeMin < store[i].startTime
        /\ store[i].startTime < query.StartTimeMax
        /\ query.ServiceName # "" => store[i].process.serviceName = query.ServiceName
        /\ query.OperationName # "" => store[i].operationName = query.OperationName
        /\ query.DurationMin # 0 => store[i].duration >= Microseconds(query.DurationMin)
        /\ query.DurationMax # 0 => store[i].duration <= Microseconds(query.DurationMax)
        /\ \A kv \in query.Tags :
            \E j \in 1..Len(store[i].tags) :
                /\ store[i].tags[j].key = kv.key
                /\ store[i].tags[j].value = StringValue(kv.value)}

\* the distinct trace ids that match the query
MatchingTraceIDs(query) == {store[i].traceID : i \in SelectedBy(query)}

\* C2: the trace ids a search returns number at most NumTraces, exactly
\* NumTraces when at least that many distinct trace ids match the filter, and
\* are all the matching ids when fewer match.
ResultLimit ==
    Searched =>
        LET matching == MatchingTraceIDs(res.query)
            n == res.query.NumTraces
        IN  /\ res.ids \subseteq matching
            /\ Cardinality(res.ids) <= n
            /\ Cardinality(matching) >= n => Cardinality(res.ids) = n
            /\ Cardinality(matching) < n => res.ids = matching

\* C3: with a non-empty tag map, a trace id is returned only if one stored
\* document of that trace, inside the time window and satisfying the other
\* predicates, carries every requested (key, value) pair in its own tag list.
TagConjunction ==
    (Searched /\ res.query.Tags # {}) =>
        \A id \in res.ids : \E i \in SelectedBy(res.query) : store[i].traceID = id

\* C3 happens: a query with two tags returned a trace of two stored spans, one
\* of which carries only one of the two tags.
TagConjunctionWitness ==
    /\ Searched
    /\ Cardinality(res.query.Tags) = 2
    /\ \E i, j \in 1..Len(store) :
        /\ store[i].traceID \in res.ids
        /\ store[j].traceID = store[i].traceID
        /\ i \in SelectedBy(res.query)
        /\ Len(store[j].tags) = 1

\* the string form of the value of a decoded tag
TagCarries(tag, kv) == tag.Key = kv.key /\ AsString(tag) = kv.value

ZeroMatches ==
    /\ (/\ res.op = "GetTrace"
        /\ res.fails = "none"
        /\ \A i \in 1..Len(store) : store[i].traceID # FormatHex(res.traceID))
            => (res.err = ErrTraceNotFound /\ res.trace = <<>>)
    /\ (/\ res.op \in {"FindTraces", "FindTraceIDs"}
        /\ res.fails = "none"
        /\ SelectedBy(res.query) = {})
            => (/\ res.err = "nil"
                /\ res.ids = {}
                /\ res.traceIDs = {}
                /\ DOMAIN res.tracesMap = {})

\* C9 happens: GetTrace was asked for an id that is not in a non-empty store.
ZeroMatchesWitness ==
    /\ res.op = "GetTrace"
    /\ res.fails = "none"
    /\ store # <<>>
    /\ \A i \in 1..Len(store) : store[i].traceID # FormatHex(res.traceID)
    /\ res.err = ErrTraceNotFound

----------------------------------------------------------------------------
(* Dependencies.                                                           *)

\* GetDependencies returned and no store call failed
GotDependencies == res.op = "GetDependencies" /\ res.fails = "none"

\* every stored span starts strictly inside the window that was asked for
WindowCoversStore ==
    \A i \in 1..Len(store) :
        /\ res.endTs - res.lookback < store[i].startTime
        /\ store[i].startTime < res.endTs

\* generateTraces has written all its spans
Generated(pattern) ==
    /\ gen.dependencyPattern = pattern
    /\ ~gen.followsFrom
    /\ gen.numTraces >= 1
    /\ gen.i = gen.numTraces

\* the link of res.dls from Service i to Service j, if there is one
LinksBetween(i, j) ==
    {key \in DOMAIN res.dls :
        res.dls[key].Parent = ServiceName(i) /\ res.dls[key].Child = ServiceName(j)}

\* C5: for the linear chain of n spans, span i a child of span i-1, the links
\* over a window covering all spans are exactly the n-1 links from Service i to
\* Service i+1, each with call count 1.
LinearChain ==
    (Generated("single") /\ GotDependencies /\ WindowCoversStore) =>
        /\ res.err = "nil"
        /\ Cardinality(DOMAIN res.dls) = gen.numTraces - 1
        /\ \A key \in DOMAIN res.dls :
            /\ res.dls[key].CallCount = 1
            /\ \E i \in 0..(gen.numTraces - 2) : key \in LinksBetween(i, i + 1)

\* C5 happens: a chain of at least three spans gave its links.
LinearChainWitness ==
    /\ Generated("single")
    /\ gen.numTraces >= 3
    /\ GotDependencies
    /\ WindowCoversStore
    /\ Cardinality(DOMAIN res.dls) >= 2

\* C6: for the chain of n spans in which span i is a child of span i+1 and of
\* span i-1, the links over a covering window are exactly 2(n-1), each with
\* call count 1 and each between services whose indices differ by 1.
BidirectionalChain ==
    (Generated("circular") /\ GotDependencies /\ WindowCoversStore) =>
        /\ res.err = "nil"
        /\ Cardinality(DOMAIN res.dls) = 2 * (gen.numTraces - 1)
        /\ \A key \in DOMAIN res.dls :
            /\ res.dls[key].CallCount = 1
            /\ \E i \in 0..(gen.numTraces - 2) :
                key \in LinksBetween(i, i + 1) \cup LinksBetween(i + 1, i)

\* C6 happens: a bidirectional chain of at least three spans gave its links.
BidirectionalChainWitness ==
    /\ Generated("circular")
    /\ gen.numTraces >= 3
    /\ GotDependencies
    /\ WindowCoversStore
    /\ Cardinality(DOMAIN res.dls) >= 4

\* C7: when every reference of every stored span is follows-from,
\* GetDependencies returns no link.
FollowsFromGivesNoLink ==
    (/\ res.op = "GetDependencies"
     /\ \A i \in 1..Len(store) : \A r \in 1..Len(store[i].references) :
            store[i].references[r].refType = FollowsFrom)
        => DOMAIN res.dls = {}

\* C7 happens: a fetched span has a follows-from reference to a fetched span
\* of another service, and no stored reference is child-of.
FollowsFromGivesNoLinkWitness ==
    /\ GotDependencies
    /\ res.err = "nil"
    /\ \A i \in 1..Len(store) : \A r \in 1..Len(store[i].references) :
            store[i].references[r].refType = FollowsFrom
    /\ \E t, u \in DOMAIN res.tracesMap :
        \E a \in 1..Len(res.tracesMap[t]), b \in 1..Len(res.tracesMap[u]) :
            /\ res.tracesMap[t][a].Process.ServiceName # res.tracesMap[u][b].Process.ServiceName
            /\ \E r \in 1..Len(res.tracesMap[t][a].References) :
                res.tracesMap[t][a].References[r].SpanID = res.tracesMap[u][b].SpanID

\* C8: over a time window [endTs - lookback, endTs] that contains no span,
\* GetDependencies returns an empty list of links and a nil error.
EmptyWindow ==
    (/\ GotDependencies
     /\ \A i \in 1..Len(store) :
            store[i].startTime < res.endTs - res.lookback \/ store[i].startTime > res.endTs)
        => (DOMAIN res.dls = {} /\ res.err = "nil")

\* C8 happens: the store holds a span with a child-of reference to a stored
\* span of another service, and the window asked for contains no span.
EmptyWindowWitness ==
    /\ GotDependencies
    /\ \A i \in 1..Len(store) :
            store[i].startTime < res.endTs - res.lookback \/ store[i].startTime > res.endTs
    /\ \E i, j \in 1..Len(store) :
        /\ store[i].process.serviceName # store[j].process.serviceName
        /\ \E r \in 1..Len(store[i].references) :
            /\ store[i].references[r].refType = ChildOf
            /\ store[i].references[r].spanID = store[j].spanID

\* C10: no link GetDependencies returns has its parent service as its child
\* service.
NoSelfLoop ==
    res.op = "GetDependencies" =>
        \A key \in DOMAIN res.dls : res.dls[key].Parent # res.dls[key].Child

\* C10 happens: a fetched span has a child-of reference to a fetched span of
\* its own service.
NoSelfLoopWitness ==
    /\ GotDependencies
    /\ res.err = "nil"
    /\ \E t, u \in DOMAIN res.tracesMap :
        \E a \in 1..Len(res.tracesMap[t]), b \in 1..Len(res.tracesMap[u]) :
            /\ res.tracesMap[t][a].Process.ServiceName = res.tracesMap[u][b].Process.ServiceName
            /\ \E r \in 1..Len(res.tracesMap[t][a].References) :
                /\ res.tracesMap[t][a].References[r].RefType = SpanRefType_CHILD_OF
                /\ res.tracesMap[t][a].References[r].SpanID = res.tracesMap[u][b].SpanID

----------------------------------------------------------------------------
(* Dependencies: how the links are keyed and what stands behind them.      *)

\* the positions <<t, a>> of the spans GetDependencies fetched
FetchedPositions ==
    UNION {{<<t, a>> : a \in 1..Len(res.tracesMap[t])} : t \in DOMAIN res.tracesMap}

FetchedSpan(pos) == res.tracesMap[pos[1]][pos[2]]

FetchedServices == {FetchedSpan(pos).Process.ServiceName : pos \in FetchedPositions}

\* the observations of the pair (P, C): a fetched span of service C together
\* with one of its child-of references that names, by trace id and span id, a
\* fetched span of service P
ObservationsOf(P, C) ==
    UNION {{<<pos, r>> : r \in {q \in 1..Len(FetchedSpan(pos).References) :
                /\ FetchedSpan(pos).References[q].RefType = SpanRefType_CHILD_OF
                /\ \E target \in FetchedPositions :
                    /\ FetchedSpan(target).TraceID = FetchedSpan(pos).References[q].TraceID
                    /\ FetchedSpan(target).SpanID = FetchedSpan(pos).References[q].SpanID
                    /\ FetchedSpan(target).Process.ServiceName = P}} :
           pos \in {f \in FetchedPositions : FetchedSpan(f).Process.ServiceName = C}}

\* the links returned from P to C
LinksFrom(P, C) ==
    {key \in DOMAIN res.dls : res.dls[key].Parent = P /\ res.dls[key].Child = C}

\* C11: for every pair of distinct services (P, C) GetDependencies returns
\* exactly one link P -> C when a fetched span of C has a child-of reference
\* to a fetched span of P, and none otherwise, and the call count of the link is
\* the number of observations of exactly that pair.
KeyedByPair ==
    (GotDependencies /\ res.err = "nil") =>
        \A P, C \in FetchedServices : P # C =>
            IF ObservationsOf(P, C) = {} THEN LinksFrom(P, C) = {}
            ELSE /\ Cardinality(LinksFrom(P, C)) = 1
                 /\ \A key \in LinksFrom(P, C) :
                        res.dls[key].CallCount = Cardinality(ObservationsOf(P, C))

\* C12: every link (P, C) GetDependencies returns is witnessed by a fetched
\* span of service C with a direct child-of reference to a fetched span of
\* service P.
DirectlyWitnessed ==
    (GotDependencies /\ res.err = "nil") =>
        \A key \in DOMAIN res.dls :
            ObservationsOf(res.dls[key].Parent, res.dls[key].Child) # {}

----------------------------------------------------------------------------
(* Failures.                                                               *)

\* a string that is no hexadecimal identifier
NotHex(str) == \A n \in Ids : FormatHex(n) # str

\* a stored tag whose value is nil, is no string, does not parse as the
\* declared type, or whose type is not recognised
MalformedTag(kv) ==
    \/ kv.value.t # "string"
    \/ kv.type \notin {StringType, BoolType, Int64Type, Float64Type}
    \/ kv.type = BoolType /\ ~ParseBool(kv.value.s).ok
    \/ kv.type = Int64Type /\ ~ParseInt(kv.value.s).ok
    \/ kv.type = Float64Type /\ ~ParseFloat(kv.value.s).ok

\* a stored document the decoder must refuse
Malformed(doc) ==
    \/ NotHex(doc.traceID)
    \/ NotHex(doc.spanID)
    \/ \E r \in 1..Len(doc.references) : doc.references[r].refType \notin {ChildOf, FollowsFrom}
    \/ \E g \in 1..Len(doc.tags) : MalformedTag(doc.tags[g])
    \/ \E g \in 1..Len(doc.process.tags) : MalformedTag(doc.process.tags[g])
    \/ \E l \in 1..Len(doc.logs) : \E g \in 1..Len(doc.logs[l].fields) :
            MalformedTag(doc.logs[l].fields[g])

\* the operation gave its caller an error value
ReturnedError == res.err \notin {"nil", "panic", "fatal"}

\* C13: when one of the documents fetchTracesById fetches is malformed,
\* GetTrace and FindTraces return an error and no trace at all.
StrictDecode ==
    /\ (/\ res.op = "GetTrace"
        /\ \E i \in 1..Len(store) :
            store[i].traceID = FormatHex(res.traceID) /\ Malformed(store[i]))
            => (ReturnedError /\ res.trace = <<>>)
    /\ (/\ res.op = "FindTraces"
        /\ \E i \in 1..Len(store) : store[i].traceID \in res.ids /\ Malformed(store[i]))
            => (ReturnedError /\ DOMAIN res.tracesMap = {})

\* C13 happens: FindTraces, with no fault of the store, fetched trace 1, whose
\* documents are all well-formed, and trace 2, which has a malformed document.
StrictDecodeWitness ==
    /\ res.op = "FindTraces"
    /\ res.fails = "none"
    /\ res.ids = {"1", "2"}
    /\ \A i \in 1..Len(store) : store[i].traceID = "1" => ~Malformed(store[i])
    /\ \E i \in 1..Len(store) : store[i].traceID = "2" /\ Malformed(store[i])
    /\ res.err = "decode"

\* C14: when the search or the fetch of FindTraces fails, GetDependencies
\* returns an error.
SurfacesFailures ==
    (/\ res.op = "GetDependencies"
     /\ \/ res.hit
        \/ \E i \in 1..Len(store) : store[i].traceID \in res.ids /\ Malformed(store[i]))
        => ReturnedError

\* C15: when the Find of findTraceIDs fails, or a document of its cursor
\* cannot be decoded, FindTraces and FindTraceIDs return an error; they neither
\* panic nor end the process.
SearchFailuresReturned ==
    (/\ res.op \in {"FindTraces", "FindTraceIDs"}
     /\ res.fails \in {"find", "searchDecode"}
     /\ res.hit)
        => ReturnedError

\* C16: when the cursor fails or the context is cancelled during the loop of
\* findTraceIDs or of fetchTracesById, the operation returns an error and
\* nothing of what it gathered.
NoPartialResults ==
    (/\ res.op \in {"GetTrace", "FindTraces", "FindTraceIDs"}
     /\ res.fails \in {"searchNext", "fetchNext"}
     /\ res.hit)
        => (/\ ReturnedError
            /\ res.traceIDs = {}
            /\ res.trace = <<>>
            /\ DOMAIN res.tracesMap = {})

\* C17: when a read operation has ended, the cursors it opened are closed.
CursorsReleased ==
    res.op # "none" => (res.cursors.search # "open" /\ res.cursors.fetch # "open")

----------------------------------------------------------------------------
(* The window of GetDependencies.                                          *)

\* C18: GetDependencies(endTs, lookback) fetches every trace that has a span
\* whose start time t satisfies endTs - lookback <= t <= endTs, the two ends
\* included.
ClosedWindow ==
    (GotDependencies /\ res.err = "nil") =>
        \A i \in 1..Len(store) :
            (res.endTs - res.lookback <= store[i].startTime /\ store[i].startTime <= res.endTs)
                => store[i].traceID \in DOMAIN res.tracesMap

----------------------------------------------------------------------------
(* Writes that are not transactional.                                      *)

\* the spans WriteSpan has inserted so far for a trace, as the reader decodes
\* them, in the order of the calls
InsertedSoFar(traceID) ==
    [k \in 1..Len(WrittenTo(traceID)) |->
        SpanFromDocument(WriteSpanDocument(WrittenTo(traceID)[k])).v]

\* C19: a GetTrace or FindTraces that runs while the spans of a trace are
\* written one by one returns, for each trace, exactly the spans WriteSpan had
\* inserted when its fetch ran, never a span that was not inserted.
ReadsInsertedSpans ==
    [][(/\ res.op \notin {"GetTrace", "FindTraces"}
        /\ res'.op \in {"GetTrace", "FindTraces"}
        /\ res'.err = "nil")
        => /\ res'.op = "GetTrace" => res'.trace = InsertedSoFar(res'.traceID)
           /\ \A t \in DOMAIN res'.tracesMap :
                /\ res'.tracesMap[t] # <<>>
                /\ res'.tracesMap[t] = InsertedSoFar(ParseHex(t).v)]_vars

\* C19 happens: the reader holds trace 1 with one span, the span that was
\* inserted when it fetched, and the writer has inserted a second span of
\* trace 1 since.
ReadsInsertedSpansWitness ==
    /\ Len(WrittenTo(1)) = 2
    /\ \/ res.op = "GetTrace" /\ res.traceID = 1 /\ res.trace = <<InsertedSoFar(1)[1]>>
       \/ /\ res.op = "FindTraces"
          /\ "1" \in DOMAIN res.tracesMap
          /\ res.tracesMap["1"] = <<InsertedSoFar(1)[1]>>

----------------------------------------------------------------------------
(* The services.                                                           *)

\* the service names of the stored spans
StoredServices == {store[i].process.serviceName : i \in 1..Len(store)}

\* C20: after any WriteSpan calls, GetServices returns every service name of
\* a stored span exactly once and no other name; when the distinct call
\* delivers a value that is no string it returns an error and no list.
ListsServices ==
    /\ (res.op = "GetServices" /\ res.fails = "none")
        => /\ res.err = "nil"
           /\ Range(res.services) = StoredServices
           /\ Len(res.services) = Cardinality(StoredServices)
    /\ (res.op = "GetServices" /\ res.fails = "distinctValue")
        => (ReturnedError /\ res.services = <<>>)

\* C20 happens: two spans of one service were written and GetServices gave the
\* name once.
ListsServicesWitness ==
    /\ res.op = "GetServices"
    /\ res.fails = "none"
    /\ Len(store) = 2
    /\ store[1].process.serviceName = store[2].process.serviceName
    /\ Len(res.services) = 1

----------------------------------------------------------------------------
(* The operations.                                                         *)

\* the operation names of the stored spans of a service, of all stored spans
\* when the service name is empty
StoredOperations(service) ==
    {store[i].operationName :
        i \in {j \in 1..Len(store) : service = "" \/ store[j].process.serviceName = service}}

\* C21: GetOperations returns one operation per distinct operation name among
\* the stored spans of the queried service, or among all stored spans when the
\* queried service name is empty, each with SpanKind "TODO".
ListsOperations ==
    (res.op = "GetOperations" /\ res.fails = "none") =>
        /\ res.err = "nil"
        /\ {res.operations[k].Name : k \in 1..Len(res.operations)} =
                StoredOperations(res.operationQuery.ServiceName)
        /\ Len(res.operations) = Cardinality(StoredOperations(res.operationQuery.ServiceName))
        /\ \A k \in 1..Len(res.operations) : res.operations[k].SpanKind = "TODO"

\* C21 happens: the store holds a span of service a and a span of another
\* service with another operation, and GetOperations, asked for service a and
\* the span kind server, gave the one operation of service a.
ListsOperationsWitness ==
    /\ res.op = "GetOperations"
    /\ res.fails = "none"
    /\ res.operationQuery = OperationQueryParameters("a", "server")
    /\ Len(store) = 2
    /\ store[1].process.serviceName = "a"
    /\ store[2].process.serviceName = "aa"
    /\ store[1].operationName # store[2].operationName
    /\ res.operations = <<Operation(store[1].operationName, "TODO")>>

----------------------------------------------------------------------------
(* What WriteSpan persists of the tags.                                    *)

\* the stored name of a declared type
StoredTypeName(vtype) ==
    CASE vtype = "STRING" -> StringType
      [] vtype = "BOOL" -> BoolType
      [] vtype = "INT64" -> Int64Type
      [] vtype = "FLOAT64" -> Float64Type

\* the tags that are to be found in the document: the tags that are not
\* binary, in their order, each with its key, its type and the string form of
\* its value
PersistedForm(tags) ==
    LET kept == WithoutBinary(tags)
    IN  [k \in 1..Len(kept) |->
            [key |-> kept[k].Key,
             type |-> StoredTypeName(kept[k].VType),
             value |-> StringValue(AsString(kept[k]))]]

\* C22: the document WriteSpan inserts for a span holds, as the span's tags
\* and as its process's tags, exactly the tags whose type is not binary, in
\* their original order, each with its key, its declared type and the string
\* form of its value.
PersistsNonBinaryTags ==
    \A i \in 1..Len(written) :
        /\ store[i].tags = PersistedForm(written[i].Tags)
        /\ store[i].process.tags = PersistedForm(written[i].Process.Tags)

\* C22 happens: a span was written whose tags are a binary tag, a string tag
\* and another binary tag and whose process has a string tag and a binary tag;
\* the document holds the string tag of each.
PersistsNonBinaryTagsWitness ==
    /\ Len(written) = 1
    /\ written[1].Tags = <<ModelBinary("blob"), ModelString("component", "x"), ModelBinary("blob")>>
    /\ written[1].Process.Tags = <<ModelString("host", "x"), ModelBinary("blob")>>
    /\ store[1].tags = <<KeyValue("component", StringType, StringValue("x"))>>
    /\ store[1].process.tags = <<KeyValue("host", StringType, StringValue("x"))>>

----------------------------------------------------------------------------
(* Truncation.                                                             *)

\* the scans of the matching documents in descending order of start time
DescendingScans(query) ==
    {scan \in Orders(SelectedBy(query)) :
        \A a \in 1..(Len(scan) - 1) :
            store[scan[a]].startTime >= store[scan[a + 1]].startTime}

\* the trace ids met in the first k documents of a scan
MetWithin(scan, k) == {store[scan[j]].traceID : j \in 1..k}

\* the rank of a matching trace: the start time of its most recent matching span
Rank(query, id) ==
    LET starts == {store[i].startTime : i \in {j \in SelectedBy(query) : store[j].traceID = id}}
    IN  CHOOSE m \in starts : \A n \in starts : n <= m

\* C23: when more than N >= 1 distinct trace ids match, the ids a search
\* returns are the first N distinct trace ids met in a scan of the matching
\* spans in descending order of start time, and no returned trace ranks below
\* a matching trace that was left out.
MostRecentWin ==
    (/\ Searched
     /\ res.query.NumTraces >= 1
     /\ Cardinality(MatchingTraceIDs(res.query)) > res.query.NumTraces) =>
        /\ Cardinality(res.ids) = res.query.NumTraces
        /\ \E scan \in DescendingScans(res.query) : \E k \in 1..Len(scan) :
                /\ MetWithin(scan, k) = res.ids
                /\ Cardinality(MetWithin(scan, k - 1)) < res.query.NumTraces
        /\ \A r \in res.ids : \A l \in MatchingTraceIDs(res.query) \ res.ids :
                Rank(res.query, r) >= Rank(res.query, l)

\* C23 happens: the older span of a trace was written first, a span of another
\* trace next and the most recent span, of the first trace, last; a search for
\* one trace returned the first trace.
MostRecentWinWitness ==
    /\ Searched
    /\ res.query.NumTraces = 1
    /\ res.query.StartTimeMax = 4
    /\ Len(store) = 3
    /\ store[1].traceID = store[3].traceID
    /\ store[2].traceID # store[1].traceID
    /\ store[1].startTime = 1
    /\ store[2].startTime = 2
    /\ store[3].startTime = 3
    /\ res.ids = {store[1].traceID}

----------------------------------------------------------------------------
(* The time window of a search.                                            *)

\* C24: every trace id a search returns belongs to a stored span whose start
\* time lies strictly between StartTimeMin and StartTimeMax, whatever the
\* other filters of the query; a span that starts at StartTimeMin or at
\* StartTimeMax does not make its trace match.
StrictWindow ==
    (res.op \in {"FindTraces", "FindTraceIDs"} /\ res.fails = "none") =>
        \A id \in res.ids : \E i \in 1..Len(store) :
            /\ store[i].traceID = id
            /\ res.query.StartTimeMin < store[i].startTime
            /\ store[i].startTime < res.query.StartTimeMax

\* C24 happens: one trace has a span that starts at StartTimeMin, another a
\* span that starts at StartTimeMax, a third a span in between; a search with
\* a service name and room for two traces returned the third alone.
StrictWindowWitness ==
    /\ res.op \in {"FindTraces", "FindTraceIDs"}
    /\ res.fails = "none"
    /\ res.query.ServiceName = "a"
    /\ res.query.NumTraces = 2
    /\ Len(store) = 3
    /\ \E i, j, k \in 1..3 :
        /\ store[i].startTime = res.query.StartTimeMin
        /\ store[j].startTime = res.query.StartTimeMax
        /\ store[k].startTime > res.query.StartTimeMin
        /\ store[k].startTime < res.query.StartTimeMax
        /\ Cardinality({store[i].traceID, store[j].traceID, store[k].traceID}) = 3
        /\ res.ids = {store[k].traceID}

----------------------------------------------------------------------------
(* The duration predicate of a search.                                     *)

\* the predicate on the stored duration, in microseconds: none when both
\* bounds are zero, one-sided when one bound is zero, the range otherwise
WithinDuration(query, duration) ==
    CASE query.DurationMin = 0 /\ query.DurationMax = 0 -> TRUE
      [] query.DurationMin = 0 /\ query.DurationMax # 0 ->
            duration <= Microseconds(query.DurationMax)
      [] query.DurationMin # 0 /\ query.DurationMax = 0 ->
            duration >= Microseconds(query.DurationMin)
      [] OTHER ->
            /\ Microseconds(query.DurationMin) <= duration
            /\ duration <= Microseconds(query.DurationMax)

\* C25: a search whose only filters are the time window and the duration
\* bounds, with room for every trace, returns the ids of exactly the traces
\* that have a span in the window whose duration satisfies: nothing when both
\* bounds are zero, duration <= DurationMax when only DurationMax is set,
\* duration >= DurationMin when only DurationMin is set, and both when both
\* are set.
DurationPredicate ==
    (/\ Searched
     /\ res.query.Tags = {}
     /\ res.query.ServiceName = ""
     /\ res.query.OperationName = ""
     /\ res.query.NumTraces >= Len(store)
     /\ res.query.NumTraces >= 1) =>
        res.ids = {store[i].traceID :
                    i \in {j \in 1..Len(store) :
                        /\ res.query.StartTimeMin < store[j].startTime
                        /\ store[j].startTime < res.query.StartTimeMax
                        /\ WithinDuration(res.query, store[j].duration)}}

\* C25 happens: both bounds are set to 2 microseconds; of a trace whose span
\* lasts 3 microseconds and a trace whose span lasts 2, the search returned
\* the second.
DurationPredicateWitness ==
    /\ Searched
    /\ res.query.DurationMin = 2000
    /\ res.query.DurationMax = 2000
    /\ Len(store) = 2
    /\ store[1].duration = 3
    /\ store[2].duration = 2
    /\ store[1].traceID # store[2].traceID
    /\ res.ids = {store[2].traceID}

----------------------------------------------------------------------------
(* Span tags that cannot be converted, in the internal reader.             *)

\* C26: when a document findTraces of internal/jager-mongodb fetches has a
\* span tag that cannot be converted, the operation returns an error and no
\* trace.
SpanTagErrorsReturned ==
    (/\ res.op = "internal GetTrace"
     /\ \E i \in 1..Len(store) :
            /\ store[i].traceID = FormatHex(res.traceID)
            /\ \E g \in 1..Len(store[i].tags) : MalformedTag(store[i].tags[g]))
        => (ReturnedError /\ res.trace = <<>>)

----------------------------------------------------------------------------
(* Grouping by trace id.                                                   *)

\* the positions, in the order of delivery, of the stored documents whose
\* trace id is id
DocumentsOf(id) ==
    FilterSeq([i \in 1..Len(store) |-> i], {i \in 1..Len(store) : store[i].traceID = id})

\* the span is the one decoded from the document
SpanOfDocument(span, doc) ==
    /\ span.SpanID = ParseHex(doc.spanID).v
    /\ span.StartTime = doc.startTime
    /\ span.OperationName = doc.operationName
    /\ span.Process.ServiceName = doc.process.serviceName

\* the spans are those of the documents of trace id, one per document, in the
\* order of delivery, each with that trace id
GroupOf(spans, id) ==
    /\ Len(spans) = Len(DocumentsOf(id))
    /\ \A k \in 1..Len(spans) :
        /\ spans[k].TraceID = ParseHex(id).v
        /\ SpanOfDocument(spans[k], store[DocumentsOf(id)[k]])

\* C27: when fetchTracesById succeeds its result has one entry per requested
\* trace id that has a stored document and no other entry, and the entry of a
\* trace id holds one span per document of that trace id, each with that
\* trace id, in the order in which the documents were delivered.
Grouping ==
    /\ (res.op = "FindTraces" /\ res.fails = "none" /\ res.err = "nil" /\ res.ids # {}) =>
        /\ DOMAIN res.tracesMap = {id \in res.ids : DocumentsOf(id) # <<>>}
        /\ \A id \in DOMAIN res.tracesMap : GroupOf(res.tracesMap[id], id)
    /\ (res.op = "GetTrace" /\ res.fails = "none") =>
        /\ res.err = (IF DocumentsOf(FormatHex(res.traceID)) = <<>>
                      THEN ErrTraceNotFound ELSE "nil")
        /\ GroupOf(res.trace, FormatHex(res.traceID))

\* C27 happens: of three stored documents the first and the third belong to
\* one trace, the third being the more recent, and the second to another
\* trace; FindTraces returned both traces, the first with its two spans in
\* the order of the documents.
GroupingWitness ==
    /\ res.op = "FindTraces"
    /\ res.err = "nil"
    /\ Len(store) = 3
    /\ store[1].traceID = store[3].traceID
    /\ store[2].traceID # store[1].traceID
    /\ store[1].startTime < store[3].startTime
    /\ DOMAIN res.tracesMap = {store[1].traceID, store[2].traceID}
    /\ Len(res.tracesMap[store[1].traceID]) = 2
    /\ res.tracesMap[store[1].traceID][1].StartTime = store[1].startTime
    /\ res.tracesMap[store[1].traceID][2].StartTime = store[3].startTime

====
